---------------------------- MODULE Spec2Model ----------------------------
(***************************************************************************)
(* A model of zoominfo_api_client/client.py: the ZoomInfoClient with its   *)
(* lazy authentication, its two search operations and the to_camel key     *)
(* transliteration.  Python values are tagged records, dicts are functions *)
(* from string keys, identifiers are sequences of one-character strings.   *)
(***************************************************************************)
EXTENDS Integers, Sequences, FiniteSets, TLC

VARIABLES
    base_url,   \* self.base_url (a string)
    username,   \* self.username
    password,   \* self.password
    token,      \* self.token
    headers,    \* self.session.headers (a dict)
    sent,       \* history: the requests handed to session.post, oldest first
    lastJwt,    \* history: the value returned by the last successful authenticate
    ncalls,     \* history: number of public calls started so far
    frame,      \* per caller: the position and locals of its running call
    name,       \* input of the to_camel check
    camel       \* result of to_camel(name)

vars == <<base_url, username, password, token, headers, sent, lastJwt, ncalls,
          frame, name, camel>>

---------------------------------------------------------------------------
(* Bounds of the model.                                                    *)

\* Number of public calls (authenticate, search_*) made on the client.
MaxCalls == 3

\* Length of the identifiers given to to_camel in SpecCamel.
MaxLen == 4

\* Number of public calls the two callers of SpecShared make in total.
MaxSharedCalls == 2

---------------------------------------------------------------------------
(* Python values.                                                          *)

None == [t |-> "NoneType"]

Str(s) == [t |-> "str", v |-> s]

Bool(b) == [t |-> "bool", v |-> b]

IntV(n) == [t |-> "int", v |-> n]

Func(f) == [t |-> "function", v |-> f]

Obj(o) == [t |-> "object", v |-> o]

Dict(d) == [t |-> "dict", v |-> d]

\* bool(v), as "if not self.token" evaluates it.
Truthy(v) ==
    CASE v.t = "NoneType" -> FALSE
      [] v.t = "str" -> v.v # ""
      [] v.t = "bool" -> v.v
      [] v.t = "int" -> v.v # 0
      [] v.t = "dict" -> DOMAIN v.v # {}
      [] OTHER -> TRUE

\* str(v) inside an f-string.
Format(v) ==
    CASE v.t = "NoneType" -> "None"
      [] v.t = "str" -> v.v
      [] OTHER -> "<" \o v.t \o ">"

EmptyDict == <<>>

\* d[k] = v
DictSet(d, k, v) == [x \in DOMAIN d \cup {k} |-> IF x = k THEN v ELSE d[x]]

\* d.update(e)
DictUpdate(d, e) ==
    [x \in DOMAIN d \cup DOMAIN e |-> IF x \in DOMAIN e THEN e[x] ELSE d[x]]

\* d.get(k)
DictGet(d, k) == IF k \in DOMAIN d THEN d[k] ELSE None

---------------------------------------------------------------------------
(* Strings as sequences of characters.                                     *)

Lowers == <<"a","b","c","d","e","f","g","h","i","j","k","l","m",
            "n","o","p","q","r","s","t","u","v","w","x","y","z">>

Uppers == <<"A","B","C","D","E","F","G","H","I","J","K","L","M",
            "N","O","P","Q","R","S","T","U","V","W","X","Y","Z">>

\* str.upper() of one character.
upper(c) ==
    IF \E i \in 1..Len(Lowers) : Lowers[i] = c
    THEN Uppers[CHOOSE i \in 1..Len(Lowers) : Lowers[i] = c]
    ELSE c

\* str.lower() of one character.
lower(c) ==
    IF \E i \in 1..Len(Uppers) : Uppers[i] = c
    THEN Lowers[CHOOSE i \in 1..Len(Uppers) : Uppers[i] = c]
    ELSE c

\* The string made of the characters of cs.
RECURSIVE text(_)
text(cs) == IF cs = <<>> THEN "" ELSE Head(cs) \o text(Tail(cs))

\* Mutant of capitalize: upper-cases the first character and keeps the rest.
capitalize_keep_rest(p) ==
    IF p = <<>> THEN <<>> ELSE <<upper(p[1])>> \o Tail(p)

\* str.capitalize(): first character upper-cased, the others lower-cased.
capitalize(p) ==
    IF p = <<>> THEN <<>>
    ELSE <<upper(p[1])>> \o [i \in 1..(Len(p) - 1) |-> lower(p[i + 1])]

\* name.split("_")
RECURSIVE split(_)
split(s) ==
    LET idx == {i \in 1..Len(s) : s[i] = "_"}
    IN  IF idx = {} THEN <<s>>
        ELSE LET i == CHOOSE j \in idx : \A k \in idx : j <= k
             IN  <<SubSeq(s, 1, i - 1)>> \o split(SubSeq(s, i + 1, Len(s)))

\* "".join(parts)
RECURSIVE join(_)
join(parts) == IF parts = <<>> THEN <<>> ELSE Head(parts) \o join(Tail(parts))

\* to_camel of search_contacts and search_companies (the same code twice).
to_camel(n) ==
    LET parts == split(n)
    IN  parts[1] \o join([i \in 1..(Len(parts) - 1) |-> capitalize(parts[i + 1])])

\* base_url.rstrip("/")
RECURSIVE rstrip(_)
rstrip(s) ==
    IF s # <<>> /\ s[Len(s)] = "/" THEN rstrip(SubSeq(s, 1, Len(s) - 1)) ELSE s

---------------------------------------------------------------------------
(* Identifiers of the two search methods, as character sequences.          *)

\* self: the first parameter of both search methods.
n_self ==
    <<"s","e","l","f">>

\* executives_only: a named parameter of search_contacts.
n_executives_only ==
    <<"e","x","e","c","u","t","i","v","e","s","_","o","n","l","y">>

\* certified: a named parameter of search_companies.
n_certified ==
    <<"c","e","r","t","i","f","i","e","d">>

\* company_id: a named parameter of both search methods.
n_company_id ==
    <<"c","o","m","p","a","n","y","_","i","d">>

\* two_year_employee_growth_rate_min: a named parameter of both search methods.
n_two_year_employee_growth_rate_min ==
    <<"t","w","o","_","y","e","a","r","_","e","m","p","l","o","y","e","e","_","g","r","o","w","t","h","_","r","a","t","e","_","m","i","n">>

\* extra_filters: the **extra_filters parameter.
n_extra_filters ==
    <<"e","x","t","r","a","_","f","i","l","t","e","r","s">>

\* to_camel: the local name the nested def binds.
n_to_camel ==
    <<"t","o","_","c","a","m","e","l">>

---------------------------------------------------------------------------
(* The inputs the model draws.                                             *)

\* base_url arguments of __init__: the default, and with trailing slashes.
BaseUrlArgs ==
    { <<"https:", "/", "/", "api.zoominfo.com">>,
      <<"https:", "/", "/", "api.zoominfo.com", "/">>,
      <<"https:", "/", "/", "api.zoominfo.com", "/", "/">> }

\* session.headers of the session given to __init__: a new session has no
\* Authorization header, a pre-configured one may carry one.
SessionHeaders == { EmptyDict, [Authorization |-> Str("Bearer stale")] }

\* The named parameters of search_contacts the model passes, in signature
\* order; the others stay at their default None.
ContactNames == <<n_executives_only, n_company_id>>

\* The named parameters of search_companies the model passes, in signature
\* order; the others stay at their default None.
CompanyNames == <<n_certified, n_two_year_employee_growth_rate_min>>

\* Argument values of search_contacts, one per name of ContactNames.
ContactArgs ==
    { <<e, c>> : e \in {None, Bool(FALSE)}, c \in {None, Str("123")} }

\* Argument values of search_companies, one per name of CompanyNames.
CompanyArgs ==
    { <<n, g>> : n \in {None, IntV(0)}, g \in {None, Str("5")} }

\* **extra_filters dicts.
ExtraFilters ==
    { EmptyDict,
      [companyId |-> Str("999")],
      [custom_Key |-> None, twoYearEmployeeGrowthRateMin |-> Str("7")] }

\* Responses of POST /authenticate: a status and the parsed JSON body.
AuthResponses ==
    { [status |-> 200, data |-> [jwt |-> Str("t1")]],
      [status |-> 200, data |-> [jwt |-> Str("t2")]],
      [status |-> 200, data |-> [jwt |-> Str("")]],
      [status |-> 200, data |-> [error |-> Str("no token")]],
      [status |-> 401, data |-> [error |-> Str("denied")]] }

\* Responses of POST /search/...: a status and the parsed JSON body.
SearchResponses ==
    { [status |-> 200, data |-> [data |-> Str("rows")]],
      [status |-> 500, data |-> [error |-> Str("boom")]] }

---------------------------------------------------------------------------
(* The payload of a search call.                                           *)

\* locals() at the head of the comprehension: the parameters in signature
\* order, then the nested function to_camel, which is bound by then.
Locals(names, args, extra) ==
    << <<n_self, Obj("ZoomInfoClient")>> >>
    \o [i \in 1..Len(names) |-> <<names[i], args[i]>>]
    \o << <<n_extra_filters, Dict(extra)>>, <<n_to_camel, Func("to_camel")>> >>

\* Mutant of Keep: keeps None values too.
KeepAll(k, v) == k \notin {n_self, n_extra_filters}

\* The filter of the comprehension.
Keep(k, v) == k \notin {n_self, n_extra_filters} /\ v # None

\* {to_camel(k): v for k, v in items if Keep(k, v)}, later writes winning.
RECURSIVE Comprehension(_, _)
Comprehension(items, acc) ==
    IF items = <<>> THEN acc
    ELSE LET k == Head(items)[1]
             v == Head(items)[2]
         IN  Comprehension(Tail(items),
                 IF Keep(k, v) THEN DictSet(acc, text(to_camel(k)), v) ELSE acc)

\* Mutant of BuildParams: the named parameters win over the extra filters.
BuildParamsNamedWin(names, args, extra) ==
    DictUpdate(extra, Comprehension(Locals(names, args, extra), EmptyDict))

\* params = {...}; params.update(extra_filters)
BuildParams(names, args, extra) ==
    DictUpdate(Comprehension(Locals(names, args, extra), EmptyDict), extra)

---------------------------------------------------------------------------
(* The calls.                                                              *)

NoResponse == [status |-> 0, data |-> EmptyDict]

NoRequest == [url |-> "", json |-> EmptyDict, headers |-> EmptyDict]

NoOutcome == [kind |-> "none", value |-> None]

\* A caller that is not inside a call.
IdleFrame ==
    [pc |-> "idle", op |-> "none", call |-> 0, names |-> <<>>, args |-> <<>>,
     extra |-> EmptyDict, params |-> EmptyDict, path |-> "",
     response |-> NoResponse, request |-> NoRequest, outcome |-> NoOutcome]

\* response.raise_for_status() raises for a 4xx or 5xx status.
IsErrorStatus(status) == status >= 400 /\ status < 600

\* The running call of caller c ends by raising exception exc.
Raise(c, exc) ==
    frame' = [frame EXCEPT ![c].pc = "done",
                           ![c].outcome = [kind |-> "raise", value |-> Str(exc)]]

\* The running call of caller c ends by returning value v.
ReturnValue(c, v) ==
    frame' = [frame EXCEPT ![c].pc = "done",
                           ![c].outcome = [kind |-> "return", value |-> v]]

\* The caller calls client.authenticate().
CallAuthenticate(c) ==
    /\ frame[c].pc = "idle"
    /\ ncalls < MaxCalls
    /\ ncalls' = ncalls + 1
    /\ frame' = [frame EXCEPT ![c] =
            [IdleFrame EXCEPT !.pc = "L62", !.op = "authenticate",
                              !.call = ncalls + 1]]
    /\ UNCHANGED <<base_url, username, password, token, headers, sent, lastJwt,
                   name, camel>>

\* A search method up to its call of _post: the payload is built.
CallSearch(c, op, path, names, args, extra) ==
    /\ frame[c].pc = "idle"
    /\ ncalls < MaxCalls
    /\ ncalls' = ncalls + 1
    /\ frame' = [frame EXCEPT ![c] =
            [IdleFrame EXCEPT !.pc = "L89", !.op = op, !.call = ncalls + 1,
                              !.names = names, !.args = args, !.extra = extra,
                              !.params = BuildParams(names, args, extra),
                              !.path = path]]
    /\ UNCHANGED <<base_url, username, password, token, headers, sent, lastJwt,
                   name, camel>>

\* The caller calls client.search_contacts(...).
CallSearchContacts(c) ==
    \E args \in ContactArgs, extra \in ExtraFilters :
        CallSearch(c, "search_contacts", "/search/contact", ContactNames, args, extra)

\* The caller calls client.search_companies(...).
CallSearchCompanies(c) ==
    \E args \in CompanyArgs, extra \in ExtraFilters :
        CallSearch(c, "search_companies", "/search/company", CompanyNames, args, extra)

\* Mutant of PostCheckToken: authenticates on every call.
PostCheckTokenAlways(c) ==
    /\ frame[c].pc = "L89"
    /\ frame' = [frame EXCEPT ![c].pc = "L62"]
    /\ UNCHANGED <<base_url, username, password, token, headers, sent, lastJwt,
                   ncalls, name, camel>>

\* Mutant of PostCheckToken: the check and the authentication are under a
\* lock, a caller waits while another one is inside authenticate.
PostCheckTokenLocked(c) ==
    /\ frame[c].pc = "L89"
    /\ \A d \in DOMAIN frame \ {c} :
          frame[d].pc \notin {"L62", "L63", "L65", "L66", "L68", "L69"}
    /\ frame' = [frame EXCEPT ![c].pc = IF ~Truthy(token) THEN "L62" ELSE "L92"]
    /\ UNCHANGED <<base_url, username, password, token, headers, sent, lastJwt,
                   ncalls, name, camel>>

\* _post: if not self.token: self.authenticate()
PostCheckToken(c) ==
    /\ frame[c].pc = "L89"
    /\ frame' = [frame EXCEPT ![c].pc = IF ~Truthy(token) THEN "L62" ELSE "L92"]
    /\ UNCHANGED <<base_url, username, password, token, headers, sent, lastJwt,
                   ncalls, name, camel>>

\* The request session.post(url, json=body) sends: the session's default
\* headers go with it.
Request(url, body) == [url |-> url, json |-> body, headers |-> headers]

\* authenticate: the POST of the credentials, and the response it gets.
AuthSend(c) ==
    /\ frame[c].pc = "L62"
    /\ \E resp \in AuthResponses :
        LET req == Request(base_url \o "/authenticate",
                           [username |-> Str(username), password |-> Str(password)])
        IN  /\ sent' = Append(sent, [call |-> frame[c].call,
                                   direct |-> frame[c].op = "authenticate",
                                   url |-> req.url, response |-> resp])
            /\ frame' = [frame EXCEPT ![c].pc = "L63", ![c].request = req,
                                      ![c].response = resp]
    /\ UNCHANGED <<base_url, username, password, token, headers, lastJwt,
                   ncalls, name, camel>>

\* Mutant of AuthRaiseForStatus: the status is not looked at.
AuthRaiseForStatusIgnored(c) ==
    /\ frame[c].pc = "L63"
    /\ frame' = [frame EXCEPT ![c].pc = "L65"]
    /\ UNCHANGED <<base_url, username, password, token, headers, sent, lastJwt,
                   ncalls, name, camel>>

\* authenticate: response.raise_for_status(); data = response.json()
AuthRaiseForStatus(c) ==
    /\ frame[c].pc = "L63"
    /\ IF IsErrorStatus(frame[c].response.status)
       THEN Raise(c, "HTTPError")
       ELSE frame' = [frame EXCEPT ![c].pc = "L65"]
    /\ UNCHANGED <<base_url, username, password, token, headers, sent, lastJwt,
                   ncalls, name, camel>>

\* authenticate: self.token = data.get("jwt")
AuthStoreToken(c) ==
    /\ frame[c].pc = "L65"
    /\ token' = DictGet(frame[c].response.data, "jwt")
    /\ frame' = [frame EXCEPT ![c].pc = "L66"]
    /\ UNCHANGED <<base_url, username, password, headers, sent, lastJwt,
                   ncalls, name, camel>>

\* Mutant of AuthCheckToken: the token is not checked.
AuthCheckTokenSkipped(c) ==
    /\ frame[c].pc = "L66"
    /\ frame' = [frame EXCEPT ![c].pc = "L68"]
    /\ UNCHANGED <<base_url, username, password, token, headers, sent, lastJwt,
                   ncalls, name, camel>>

\* authenticate: if not self.token: raise ValueError(...)
AuthCheckToken(c) ==
    /\ frame[c].pc = "L66"
    /\ IF ~Truthy(token)
       THEN Raise(c, "ValueError")
       ELSE frame' = [frame EXCEPT ![c].pc = "L68"]
    /\ UNCHANGED <<base_url, username, password, token, headers, sent, lastJwt,
                   ncalls, name, camel>>

\* Mutant of AuthSetHeader: the header is the bare token.
AuthSetHeaderBare(c) ==
    /\ frame[c].pc = "L68"
    /\ headers' = DictSet(headers, "Authorization", Str(Format(token)))
    /\ frame' = [frame EXCEPT ![c].pc = "L69"]
    /\ UNCHANGED <<base_url, username, password, token, sent, lastJwt,
                   ncalls, name, camel>>

\* Mutant of AuthSetHeader: headers.setdefault, an Authorization header the
\* session already has is kept.
AuthSetHeaderIfAbsent(c) ==
    /\ frame[c].pc = "L68"
    /\ headers' = IF "Authorization" \in DOMAIN headers THEN headers
                  ELSE DictSet(headers, "Authorization",
                               Str("Bearer " \o Format(token)))
    /\ frame' = [frame EXCEPT ![c].pc = "L69"]
    /\ UNCHANGED <<base_url, username, password, token, sent, lastJwt,
                   ncalls, name, camel>>

\* authenticate: self.session.headers["Authorization"] = f"Bearer {self.token}"
AuthSetHeader(c) ==
    /\ frame[c].pc = "L68"
    /\ headers' = DictSet(headers, "Authorization", Str("Bearer " \o Format(token)))
    /\ frame' = [frame EXCEPT ![c].pc = "L69"]
    /\ UNCHANGED <<base_url, username, password, token, sent, lastJwt,
                   ncalls, name, camel>>

\* authenticate: return self.token, to the caller or back into _post.
AuthReturn(c) ==
    /\ frame[c].pc = "L69"
    /\ lastJwt' = token
    /\ IF frame[c].op = "authenticate"
       THEN ReturnValue(c, token)
       ELSE frame' = [frame EXCEPT ![c].pc = "L92"]
    /\ UNCHANGED <<base_url, username, password, token, headers, sent,
                   ncalls, name, camel>>

\* _post: the POST of the payload, and the response it gets.
PostSend(c) ==
    /\ frame[c].pc = "L92"
    /\ \E resp \in SearchResponses :
        LET req == Request(base_url \o frame[c].path, frame[c].params)
        IN  /\ sent' = Append(sent, [call |-> frame[c].call,
                                   direct |-> frame[c].op = "authenticate",
                                   url |-> req.url, response |-> resp])
            /\ frame' = [frame EXCEPT ![c].pc = "L93", ![c].request = req,
                                      ![c].response = resp]
    /\ UNCHANGED <<base_url, username, password, token, headers, lastJwt,
                   ncalls, name, camel>>

\* Mutant of PostReturn: a failed search request is sent again.
PostReturnRetries(c) ==
    /\ frame[c].pc = "L93"
    /\ IF IsErrorStatus(frame[c].response.status)
       THEN frame' = [frame EXCEPT ![c].pc = "L92"]
       ELSE ReturnValue(c, Dict(frame[c].response.data))
    /\ UNCHANGED <<base_url, username, password, token, headers, sent, lastJwt,
                   ncalls, name, camel>>

\* _post: response.raise_for_status(); return response.json()
PostReturn(c) ==
    /\ frame[c].pc = "L93"
    /\ IF IsErrorStatus(frame[c].response.status)
       THEN Raise(c, "HTTPError")
       ELSE ReturnValue(c, Dict(frame[c].response.data))
    /\ UNCHANGED <<base_url, username, password, token, headers, sent, lastJwt,
                   ncalls, name, camel>>

\* The caller has the outcome of its call and is free to call again.
Finish(c) ==
    /\ frame[c].pc = "done"
    /\ frame' = [frame EXCEPT ![c] = IdleFrame]
    /\ UNCHANGED <<base_url, username, password, token, headers, sent, lastJwt,
                   ncalls, name, camel>>

\* ZoomInfoClient(username, password, base_url, session), used by one caller.
Init ==
    /\ base_url \in {text(rstrip(b)) : b \in BaseUrlArgs}
    /\ username = "user"
    /\ password = "secret"
    /\ token = None
    /\ headers \in SessionHeaders
    /\ sent = <<>>
    /\ lastJwt = None
    /\ ncalls = 0
    /\ frame = [c \in {1} |-> IdleFrame]
    /\ name = <<>>
    /\ camel = [done |-> FALSE, out |-> <<>>]

Next ==
    \/ \E c \in DOMAIN frame : CallAuthenticate(c)
    \/ \E c \in DOMAIN frame : CallSearchContacts(c)
    \/ \E c \in DOMAIN frame : CallSearchCompanies(c)
    \/ \E c \in DOMAIN frame : PostCheckToken(c)
    \/ \E c \in DOMAIN frame : AuthSend(c)
    \/ \E c \in DOMAIN frame : AuthRaiseForStatus(c)
    \/ \E c \in DOMAIN frame : AuthStoreToken(c)
    \/ \E c \in DOMAIN frame : AuthCheckToken(c)
    \/ \E c \in DOMAIN frame : AuthSetHeader(c)
    \/ \E c \in DOMAIN frame : AuthReturn(c)
    \/ \E c \in DOMAIN frame : PostSend(c)
    \/ \E c \in DOMAIN frame : PostReturn(c)
    \/ \E c \in DOMAIN frame : Finish(c)

Spec == Init /\ [][Next]_vars

---------------------------------------------------------------------------
(* to_camel on its own: the inputs are drawn by InitCamel.                 *)

\* The characters the identifiers given to to_camel are made of.
CamelAlphabet == {"a", "B", "_", "1"}

\* All identifiers over CamelAlphabet of length at most n.
NamesUpTo(n) == UNION {[1..k -> CamelAlphabet] : k \in 0..n}

\* The identifiers to_camel is applied to.
CamelInputs ==
    NamesUpTo(MaxLen) \cup {n_company_id, n_two_year_employee_growth_rate_min}

\* A client nobody calls, and an identifier to transliterate.
InitCamel ==
    /\ base_url = text(rstrip(<<"https:", "/", "/", "api.zoominfo.com">>))
    /\ username = "user"
    /\ password = "secret"
    /\ token = None
    /\ headers = EmptyDict
    /\ sent = <<>>
    /\ lastJwt = None
    /\ ncalls = 0
    /\ frame = [c \in {1} |-> IdleFrame]
    /\ name \in CamelInputs
    /\ camel = [done |-> FALSE, out |-> <<>>]

\* camel = to_camel(name)
ApplyToCamel ==
    /\ ~camel.done
    /\ camel' = [done |-> TRUE, out |-> to_camel(name)]
    /\ UNCHANGED <<base_url, username, password, token, headers, sent, lastJwt,
                   ncalls, frame, name>>

NextCamel == ApplyToCamel

SpecCamel == InitCamel /\ [][NextCamel]_vars

---------------------------------------------------------------------------
(* Vocabulary of the properties.                                           *)

AuthUrl == base_url \o "/authenticate"

SearchUrls == {base_url \o "/search/contact", base_url \o "/search/company"}

IsSearchOp(op) == op \in {"search_contacts", "search_companies"}

\* The positions in sent of the requests call n made to the urls in U.
SentBy(n, U) == {i \in 1..Len(sent) : sent[i].call = n /\ sent[i].url \in U}

\* An authenticate response the client accepts: success status, usable jwt.
AuthOk(resp) == ~IsErrorStatus(resp.status) /\ Truthy(DictGet(resp.data, "jwt"))

\* Caller c has just handed its search request to the transport.
SearchSent(c) == frame[c].pc = "L93"

\* The transliterated keys of the named parameters of frame f that are not None.
NamedKeys(f) ==
    {text(to_camel(f.names[i])) : i \in {j \in 1..Len(f.names) : f.args[j] # None}}

(* C1: the payload of a search request has as keys exactly the             *)
(* transliterated names of the non-None named parameters plus the keys of  *)
(* the extra filters; search_contacts(company_id="123") sends exactly      *)
(* {"companyId": "123"}.                                                   *)
C1_PayloadKeysExact ==
    \A c \in DOMAIN frame :
        SearchSent(c) =>
            /\ DOMAIN frame[c].request.json
                   = NamedKeys(frame[c]) \cup DOMAIN frame[c].extra
            /\ ( /\ frame[c].op = "search_contacts"
                 /\ frame[c].args = <<None, Str("123")>>
                 /\ frame[c].extra = EmptyDict )
               => frame[c].request.json = [companyId |-> Str("123")]

(* C2: on a fresh client on which only search calls were made and whose    *)
(* authenticate requests were all answered with a success status and a     *)
(* jwt, exactly one authenticate request is sent, it is the first request  *)
(* of all, and every search request carries the token it brought.          *)
C2_LazyAuthOnce ==
    ( /\ \A i \in 1..Len(sent) : ~sent[i].direct
      /\ \A i \in 1..Len(sent) :
            sent[i].url = AuthUrl => AuthOk(sent[i].response)
      /\ \A c \in DOMAIN frame : frame[c].op # "authenticate" )
    =>
    /\ Cardinality({i \in 1..Len(sent) : sent[i].url = AuthUrl}) <= 1
    /\ sent # <<>> => sent[1].url = AuthUrl
    /\ \A c \in DOMAIN frame :
          SearchSent(c) =>
              /\ token = sent[1].response.data.jwt
              /\ "Authorization" \in DOMAIN frame[c].request.headers
              /\ frame[c].request.headers["Authorization"]
                     = Str("Bearer " \o sent[1].response.data.jwt.v)

\* C2's case: a second search call has sent its request after a first one
\* authenticated.
C2_Witness ==
    /\ Len(sent) = 3
    /\ \A i \in 1..Len(sent) : ~sent[i].direct
    /\ sent[1].url = AuthUrl /\ AuthOk(sent[1].response)
    /\ sent[2].url \in SearchUrls /\ sent[2].call = 1
    /\ sent[3].url \in SearchUrls /\ sent[3].call = 2
    /\ SearchSent(1)

\* The authenticate request call n sent was answered with an error status.
AuthRefused(n) ==
    \E i \in SentBy(n, {AuthUrl}) : IsErrorStatus(sent[i].response.status)

(* C3: a search call whose authenticate request gets a non-success status  *)
(* ends with the HTTP error raised in authenticate, sends no request to a  *)
(* search endpoint, and leaves the token absent.                           *)
C3_AuthFailurePropagates ==
    \A c \in DOMAIN frame :
        ( /\ frame[c].pc = "done"
          /\ IsSearchOp(frame[c].op)
          /\ AuthRefused(frame[c].call) )
        =>
        /\ frame[c].outcome = [kind |-> "raise", value |-> Str("HTTPError")]
        /\ SentBy(frame[c].call, SearchUrls) = {}
        /\ Cardinality(SentBy(frame[c].call, {AuthUrl})) = 1
        /\ ~Truthy(token)

\* C3's case: a search call has ended after its authenticate request was refused.
C3_Witness ==
    \E c \in DOMAIN frame :
        /\ frame[c].pc = "done"
        /\ IsSearchOp(frame[c].op)
        /\ AuthRefused(frame[c].call)

\* The authenticate request call n sent was answered with a success status
\* and a JSON object without a jwt field.
AuthWithoutJwt(n) ==
    \E i \in SentBy(n, {AuthUrl}) :
        /\ ~IsErrorStatus(sent[i].response.status)
        /\ "jwt" \notin DOMAIN sent[i].response.data

(* C4: when the authenticate endpoint answers with a success status and a  *)
(* JSON object without a jwt field, the call (authenticate itself, or the  *)
(* search call that triggered it) ends with the ValueError raised in        *)
(* authenticate, and a search call sends no search request.                *)
C4_MissingTokenFails ==
    \A c \in DOMAIN frame :
        (frame[c].pc = "done" /\ AuthWithoutJwt(frame[c].call))
        =>
        /\ frame[c].outcome = [kind |-> "raise", value |-> Str("ValueError")]
        /\ SentBy(frame[c].call, SearchUrls) = {}

\* C4's case: a direct authenticate and then a search call have both ended
\* on a response without jwt.
C4_Witness ==
    \E c \in DOMAIN frame :
        /\ frame[c].pc = "done"
        /\ IsSearchOp(frame[c].op)
        /\ AuthWithoutJwt(frame[c].call)
        /\ \E i \in 1..Len(sent) :
              /\ sent[i].direct
              /\ sent[i].call # frame[c].call
              /\ AuthWithoutJwt(sent[i].call)

(* C5: every extra filter is in the payload under its own key with its own *)
(* value, also when that key is the transliterated name of a supplied      *)
(* named parameter; company_id="123" with the extra filter                 *)
(* companyId="999" sends companyId = "999".                                *)
C5_ExtraFiltersVerbatimAndWin ==
    \A c \in DOMAIN frame :
        SearchSent(c) =>
            /\ \A k \in DOMAIN frame[c].extra :
                  /\ k \in DOMAIN frame[c].request.json
                  /\ frame[c].request.json[k] = frame[c].extra[k]
            /\ ( /\ frame[c].op = "search_contacts"
                 /\ frame[c].args[2] = Str("123")
                 /\ frame[c].extra = [companyId |-> Str("999")] )
               => frame[c].request.json["companyId"] = Str("999")

\* C5's case: a search request was sent whose extra filters collide with a
\* supplied named parameter and also hold a key that is no transliteration.
C5_Witness ==
    \E c \in DOMAIN frame :
        /\ SearchSent(c)
        /\ frame[c].op = "search_companies"
        /\ frame[c].args[2] = Str("5")
        /\ "twoYearEmployeeGrowthRateMin" \in NamedKeys(frame[c])
        /\ frame[c].extra
               = [custom_Key |-> None, twoYearEmployeeGrowthRateMin |-> Str("7")]
        /\ frame[c].request.json["twoYearEmployeeGrowthRateMin"] = Str("7")
        /\ frame[c].request.json["custom_Key"] = None

\* The transliteration written position by position: underscores vanish, a
\* character of the first part stays, a character right after an underscore
\* is upper-cased, and any other character is rest(c).
RECURSIVE Transliterated(_, _, _)
Transliterated(s, i, lowerRest) ==
    IF i > Len(s) THEN <<>>
    ELSE IF s[i] = "_" THEN Transliterated(s, i + 1, lowerRest)
    ELSE LET c == IF \A j \in 1..(i - 1) : s[j] # "_" THEN s[i]
                  ELSE IF s[i - 1] = "_" THEN upper(s[i])
                  ELSE IF lowerRest THEN lower(s[i])
                  ELSE s[i]
         IN  <<c>> \o Transliterated(s, i + 1, lowerRest)

\* The spot checks of the transliteration.
CamelExamples ==
    /\ name = <<>> => camel.out = <<>>
    /\ (\A i \in 1..Len(name) : name[i] # "_") => camel.out = name
    /\ name = n_company_id => text(camel.out) = "companyId"
    /\ name = n_two_year_employee_growth_rate_min
           => text(camel.out) = "twoYearEmployeeGrowthRateMin"

(* C6 as stated: to_camel returns the first part unchanged followed by     *)
(* each later part with its first character upper-cased and its remaining  *)
(* characters left as they are.                                            *)
C6_RestLeftAsIs ==
    camel.done => camel.out = Transliterated(name, 1, FALSE) /\ CamelExamples

(* C6 as amended: to_camel returns the first part unchanged followed by    *)
(* each later part with its first character upper-cased and its remaining  *)
(* characters lower-cased; a single part is returned unchanged, "" gives   *)
(* "", company_id gives companyId and two_year_employee_growth_rate_min    *)
(* gives twoYearEmployeeGrowthRateMin.                                     *)
C6_RestLowerCased ==
    camel.done => camel.out = Transliterated(name, 1, TRUE) /\ CamelExamples

\* C6's case: a later part with an upper-case letter after its first character.
C6_Witness ==
    /\ camel.done
    /\ name = <<"a", "_", "a", "B">>
    /\ text(camel.out) = "aAb"

\* Caller c is where an authenticate of its call has just returned the token.
AuthSucceeded(c) ==
    \/ /\ frame[c].op = "authenticate"
       /\ frame[c].pc = "done"
       /\ frame[c].outcome.kind = "return"
    \/ /\ IsSearchOp(frame[c].op)
       /\ frame[c].pc = "L92"
       /\ SentBy(frame[c].call, {AuthUrl}) # {}

(* C7: when authenticate succeeds it has sent exactly one POST, to         *)
(* base_url + "/authenticate" with the stored credentials as body, it      *)
(* returns the jwt of the response, the stored token is that jwt and the   *)
(* session's Authorization header is "Bearer " followed by it.             *)
C7_AuthenticateStoresToken ==
    \A c \in DOMAIN frame :
        AuthSucceeded(c) =>
            LET jwt == DictGet(frame[c].response.data, "jwt")
            IN  /\ Cardinality(SentBy(frame[c].call, {AuthUrl})) = 1
                /\ SentBy(frame[c].call, SearchUrls) = {}
                /\ frame[c].request.url = base_url \o "/authenticate"
                /\ frame[c].request.url = "https://api.zoominfo.com/authenticate"
                /\ frame[c].request.json
                       = [username |-> Str(username), password |-> Str(password)]
                /\ jwt.t = "str"
                /\ frame[c].op = "authenticate" => frame[c].outcome.value = jwt
                /\ lastJwt = jwt
                /\ token = jwt
                /\ "Authorization" \in DOMAIN headers
                /\ headers["Authorization"] = Str("Bearer " \o jwt.v)

\* C7's case: a direct authenticate has returned a token that replaces the
\* one an earlier authentication stored.
C7_Witness ==
    \E c \in DOMAIN frame :
        /\ AuthSucceeded(c)
        /\ frame[c].op = "authenticate"
        /\ frame[c].outcome.value = Str("t2")
        /\ \E i \in 1..Len(sent) :
              /\ sent[i].call # frame[c].call
              /\ sent[i].url = AuthUrl
              /\ DictGet(sent[i].response.data, "jwt") = Str("t1")

(* C8: every request sent to a search endpoint carries the header          *)
(* Authorization: Bearer <token>, where <token> is the jwt returned by the *)
(* most recent successful authentication.                                  *)
C8_SearchCarriesLatestToken ==
    \A c \in DOMAIN frame :
        SearchSent(c) =>
            /\ frame[c].request.url \in SearchUrls
            /\ lastJwt.t = "str"
            /\ "Authorization" \in DOMAIN frame[c].request.headers
            /\ frame[c].request.headers["Authorization"]
                   = Str("Bearer " \o lastJwt.v)

\* C8's case: a search request sent after a first authentication, a failed
\* one and a second successful one.
C8_Witness ==
    \E c \in DOMAIN frame :
        /\ SearchSent(c)
        /\ Len(sent) = 4
        /\ AuthOk(sent[1].response)
        /\ sent[2].url = AuthUrl /\ ~AuthOk(sent[2].response)
        /\ sent[3].url = AuthUrl /\ AuthOk(sent[3].response)
        /\ sent[3].response # sent[1].response
        /\ frame[c].request.headers["Authorization"]
               = Str("Bearer " \o sent[3].response.data.jwt.v)

(* C9: the stored token is absent at construction and no step takes it     *)
(* from present back to absent.                                            *)
C9_TokenNeverCleared ==
    (token = None) /\ [][Truthy(token) => token' # None]_vars

(* C10 as stated: no payload sent by a search maps a key to None.          *)
C10_NoNullInPayload ==
    \A c \in DOMAIN frame :
        SearchSent(c) =>
            \A k \in DOMAIN frame[c].request.json :
                frame[c].request.json[k] # None

(* C10 as amended: a payload sent by a search maps a key to None only when *)
(* the extra filters map that key to None; a named parameter whose value   *)
(* is None contributes no entry.                                           *)
C10_NullOnlyFromExtraFilters ==
    \A c \in DOMAIN frame :
        SearchSent(c) =>
            /\ \A k \in DOMAIN frame[c].request.json :
                  frame[c].request.json[k] = None
                      => k \in DOMAIN frame[c].extra /\ frame[c].extra[k] = None
            /\ \A i \in 1..Len(frame[c].names) :
                  ( /\ frame[c].args[i] = None
                    /\ text(to_camel(frame[c].names[i])) \notin DOMAIN frame[c].extra )
                  => text(to_camel(frame[c].names[i]))
                         \notin DOMAIN frame[c].request.json

\* C10's case: a search request was sent for a call with a None named
\* parameter, a falsy one that is not None, and a None extra filter.
C10_Witness ==
    \E c \in DOMAIN frame :
        /\ SearchSent(c)
        /\ frame[c].args = <<IntV(0), None>>
        /\ frame[c].extra = [custom_Key |-> None,
                             twoYearEmployeeGrowthRateMin |-> Str("7")]
        /\ frame[c].request.json["certified"] = IntV(0)
        /\ frame[c].request.json["custom_Key"] = None

\* The positions in sent of the requests of call n that got an error status.
Refused(n) ==
    {i \in 1..Len(sent) : sent[i].call = n /\ IsErrorStatus(sent[i].response.status)}

(* C11: there are no retries: a call sends at most one request to the      *)
(* authenticate endpoint and at most one to its search endpoint, and once  *)
(* one of them gets a non-success status the call sends nothing more and   *)
(* ends with the HTTP error.                                               *)
C11_NoRetries ==
    /\ \A n \in 1..ncalls :
          /\ Cardinality(SentBy(n, {AuthUrl})) <= 1
          /\ Cardinality(SentBy(n, SearchUrls)) <= 1
          /\ \A i \in Refused(n) : \A j \in (i + 1)..Len(sent) : sent[j].call # n
    /\ \A c \in DOMAIN frame :
          (frame[c].pc # "idle" /\ Refused(frame[c].call) # {})
          =>
          /\ frame[c].pc \in {"L63", "L93", "done"}
          /\ frame[c].pc = "done"
                => frame[c].outcome = [kind |-> "raise", value |-> Str("HTTPError")]

\* C11's case: a search call that authenticated has ended on the error
\* status of its search request.
C11_Witness ==
    \E c \in DOMAIN frame :
        /\ frame[c].pc = "done"
        /\ IsSearchOp(frame[c].op)
        /\ SentBy(frame[c].call, {AuthUrl}) # {}
        /\ \E i \in SentBy(frame[c].call, SearchUrls) : i \in Refused(frame[c].call)

---------------------------------------------------------------------------
(* The client built on a session without Authorization header.             *)

\* ZoomInfoClient(username, password) on a new requests.Session().
InitFresh == Init /\ headers = EmptyDict

SpecFresh == InitFresh /\ [][Next]_vars

\* No caller is inside a call.
BetweenCalls == \A c \in DOMAIN frame : frame[c].pc \in {"idle", "done"}

(* C13: between calls, on a client built on a session without              *)
(* Authorization header, the session has an Authorization header if and    *)
(* only if a token is stored, and then the header is "Bearer " followed by *)
(* the stored token, also after a failed authenticate.                     *)
C13_TokenAndHeaderConsistent ==
    BetweenCalls =>
        /\ "Authorization" \in DOMAIN headers <=> Truthy(token)
        /\ Truthy(token) => headers["Authorization"] = Str("Bearer " \o Format(token))

---------------------------------------------------------------------------
(* One client shared by two concurrent callers.  The statements of         *)
(* authenticate and _post interleave freely: the code takes no lock.  The  *)
(* payload plays no part in the interleaving and both search methods go    *)
(* through the same _post, so the callers use search_contacts with one     *)
(* argument list.                                                          *)

\* client.authenticate() called by one of the callers.
CallAuthenticateShared(c) == ncalls < MaxSharedCalls /\ CallAuthenticate(c)

\* client.search_contacts(company_id="123") called by one of the callers.
CallSearchContactsShared(c) ==
    /\ ncalls < MaxSharedCalls
    /\ CallSearch(c, "search_contacts", "/search/contact", ContactNames,
                  <<None, Str("123")>>, EmptyDict)

\* ZoomInfoClient(username, password) on a new session, used by two callers.
InitShared ==
    /\ base_url \in {text(rstrip(b)) : b \in BaseUrlArgs}
    /\ username = "user"
    /\ password = "secret"
    /\ token = None
    /\ headers = EmptyDict
    /\ sent = <<>>
    /\ lastJwt = None
    /\ ncalls = 0
    /\ frame = [c \in {1, 2} |-> IdleFrame]
    /\ name = <<>>
    /\ camel = [done |-> FALSE, out |-> <<>>]

NextShared ==
    \/ \E c \in DOMAIN frame : CallAuthenticateShared(c)
    \/ \E c \in DOMAIN frame : CallSearchContactsShared(c)
    \/ \E c \in DOMAIN frame : PostCheckToken(c)
    \/ \E c \in DOMAIN frame : AuthSend(c)
    \/ \E c \in DOMAIN frame : AuthRaiseForStatus(c)
    \/ \E c \in DOMAIN frame : AuthStoreToken(c)
    \/ \E c \in DOMAIN frame : AuthCheckToken(c)
    \/ \E c \in DOMAIN frame : AuthSetHeader(c)
    \/ \E c \in DOMAIN frame : AuthReturn(c)
    \/ \E c \in DOMAIN frame : PostSend(c)
    \/ \E c \in DOMAIN frame : PostReturn(c)
    \/ \E c \in DOMAIN frame : Finish(c)

SpecShared == InitShared /\ [][NextShared]_vars

(* C12: with two callers sharing one client, the token check of _post and  *)
(* the authentication are not guarded by any lock: a caller that finds no  *)
(* token goes on into authenticate, and a caller inside authenticate sends *)
(* its request, wherever the other caller is; so both callers can find no  *)
(* token and both send an authenticate request.                            *)
C12_AuthenticationUnguarded ==
    \A c \in DOMAIN frame :
        /\ (frame[c].pc = "L89" /\ ~Truthy(token))
              => ENABLED (PostCheckToken(c) /\ frame'[c].pc = "L62")
        /\ frame[c].pc = "L62" => ENABLED AuthSend(c)

\* C12's case: both callers are in a search call, both found no token and
\* both have sent an authenticate request.
C12_Witness ==
    /\ DOMAIN frame = {1, 2}
    /\ \A c \in DOMAIN frame :
          /\ IsSearchOp(frame[c].op)
          /\ frame[c].pc = "L63"
          /\ SentBy(frame[c].call, {AuthUrl}) # {}
    /\ frame[1].call # frame[2].call
    /\ Cardinality({i \in 1..Len(sent) : sent[i].url = AuthUrl}) = 2
    /\ token = None

(* C14: with two callers sharing one client, every request sent to a       *)
(* search endpoint is sent after the session's Authorization header has    *)
(* been set, so it carries an Authorization header.                        *)
C14_SearchSentAfterHeaderSet ==
    \A c \in DOMAIN frame :
        SearchSent(c) => "Authorization" \in DOMAIN frame[c].request.headers

===========================================================================
